---- MODULE Spec2Model ----
(***************************************************************************)
(* Model of the batch-submitter utilities of Metis-Protocol/mvm:           *)
(*   packages/batch-submitter/src/utils/tx-submission.ts                   *)
(*     the gas-price-escalating transaction submitter built on ynatm       *)
(*   packages/batch-submitter/src/utils/mpc-client.ts                      *)
(*     the HTTP client of the MPC signing service and its polling loop     *)
(*                                                                         *)
(* Five specifications share the module; each leaves the other parts'      *)
(* variables unchanged:                                                    *)
(*   SpecSubmit      one submitTransaction or submitSignedTransaction call *)
(*                   of a YnatmTransactionSubmitter                        *)
(*   SpecMpc         one getMpcSignWithTimeout call (timer, polls, promise)*)
(*   SpecClient      the single-request operations of MpcClient            *)
(*   SpecHex         removeHexLeadingZero, applied once and twice          *)
(*   SpecConcurrent  two overlapping getMpcSignWithTimeout calls           *)
(***************************************************************************)
EXTENDS Integers, Sequences, FiniteSets, TLC

VARIABLES
    \* ---- tx-submission.ts ----
    signer,            \* YnatmTransactionSubmitter.signer
    tx,                \* the caller's transaction, handed to the facade
    submission,        \* the arguments the facade delegated with
    ynatmConfig,       \* YnatmTransactionSubmitter.ynatmConfig (ResubmissionConfig)
    numConfirmations,  \* YnatmTransactionSubmitter.numConfirmations
    callState,         \* where the submitTransaction call is
    networkGasPrice,   \* what signer.getGasPrice() answered (wei), or NoPrice
    minGasPrice,       \* const minGasPrice of submitTransactionWithYNATM (gwei)
    attempts,          \* the sendTxAndWaitForReceipt invocations, in round order
    receipts,          \* the Receipts handed to the caller of submitTransaction
    callError,         \* the error the call was rejected with, or NoError
    \* ---- mpc-client.ts: getMpcSignWithTimeout ----
    now,               \* Date.now()
    mpcCall,           \* arguments and startTime of the call, or NoCall
    requestInterval,   \* the setInterval timer
    polls,             \* the getMpcSign requests issued by the timer
    promise,           \* the Promise the call returned
    \* ---- mpc-client.ts: single requests ----
    url,               \* MpcClient.url
    request,           \* the request operation in progress and its outcome
    \* ---- mpc-client.ts: removeHexLeadingZero ----
    hexCall,           \* arguments and results of removeHexLeadingZero
    \* ---- mpc-client.ts: concurrent getMpcSignWithTimeout calls ----
    timers,            \* the interval timers of the runtime, by timer id
    calls              \* the getMpcSignWithTimeout calls on one client

submitVars == <<signer, tx, submission, ynatmConfig, numConfirmations,
                callState, networkGasPrice, minGasPrice, attempts, receipts,
                callError>>
mpcVars == <<now, mpcCall, requestInterval, polls, promise>>
clientVars == <<url, request>>
hexVars == <<hexCall>>
concurrentVars == <<timers, calls>>
vars == <<submitVars, mpcVars, clientVars, hexVars, concurrentVars>>

----------------------------------------------------------------------------
(* Bounds of the model *)

\* escalation rounds one call may start
MaxRounds == 3
\* largest gas price, in gwei, a config or the network names
MaxGwei == 3
\* largest gasRetryIncrement
MaxIncrement == 2
\* last instant of the polling clock
MaxTime == 4
\* largest maxTimeout argument
MaxMaxTimeout == 3
\* largest interval argument
MaxPollInterval == 2
\* longest string handed to removeHexLeadingZero
MaxHexLen == 5

----------------------------------------------------------------------------
(* Wei amounts.  A wei amount is kept as whole gwei plus the wei below one  *)
(* gwei, so that 10^9-scaled values stay inside TLC's integers.            *)

WeiPerGwei == 1000000000

Wei(g, s) == [gwei |-> g, sub |-> s]

WeiLeq(a, b) == a.gwei < b.gwei \/ (a.gwei = b.gwei /\ a.sub <= b.sub)

WeiMin(a, b) == IF WeiLeq(a, b) THEN a ELSE b

\* ynatm.toGwei: a gwei count as wei
toGwei(g) == Wei(g, 0)

\* ethers.utils.formatUnits(wei, 'gwei') followed by parseInt(.., 10): the
\* decimal string "<gwei>.<fraction>" read up to the point
ParseIntFormatUnitsGwei(wei) == wei.gwei

\* ynatm.LINEAR(slope): ({x, y}) => y + x * toGwei(slope)
LINEAR(slope, x, y) == Wei(y.gwei + x * slope, y.sub)

NoPrice == Wei(-1, 0)
NoError == [kind |-> "none", attempt |-> 0]

\* the configs of the data model: minGasPriceInGwei <= maxGasPriceInGwei
ResubmissionConfigs ==
    { c \in [minGasPriceInGwei : 1..MaxGwei, maxGasPriceInGwei : 1..MaxGwei,
             gasRetryIncrement : 0..MaxIncrement] :
        c.minGasPriceInGwei <= c.maxGasPriceInGwei }

\* what the network may answer to getGasPrice: below, inside and above the
\* configured range in whole gwei, and just below a whole gwei at the low end
NetworkGasPrices ==
    { Wei(g, 0) : g \in 0..(MaxGwei + 1) }
    \cup { Wei(g, WeiPerGwei - 1) : g \in 0..1 }

----------------------------------------------------------------------------
(* tx-submission.ts: submitTransaction of YnatmTransactionSubmitter         *)

\* getGasPriceInGwei: the signer's gas price in whole gwei
getGasPriceInGwei(price) == ParseIntFormatUnitsGwei(price)

\* the arguments submitTransactionWithYNATM hands to ynatm.send
EngineMinGasPrice(minGwei) == toGwei(minGwei)

\* mutant: the cap handed over lies one increment above the configured one
EngineMaxGasPriceOneStepLate ==
    toGwei(ynatmConfig.maxGasPriceInGwei + ynatmConfig.gasRetryIncrement)

EngineMaxGasPrice == toGwei(ynatmConfig.maxGasPriceInGwei)

EngineScaling(x, y) == LINEAR(ynatmConfig.gasRetryIncrement, x, y)

\* The gas price of round k (k = 0 for the first): the start price escalated
\* linearly, capped at the maximum.
GasPriceOfRound(minGwei, k) ==
    WeiMin(EngineScaling(k, EngineMinGasPrice(minGwei)), EngineMaxGasPrice)

\* the transaction a caller hands in: destination and data, no gas price
Templates == { [to |-> "0xctc", data |-> "0xbatch", gasPrice |-> NoPrice] }

\* no transaction object (pre-signed mode sends the signed payload)
NoTx == [to |-> "", data |-> "", gasPrice |-> NoPrice]

\* mutant: the transaction sent carries the gas price and nothing else
FullTxGasPriceOnly(t, gasPrice) == [NoTx EXCEPT !.gasPrice = gasPrice]

\* `const fullTx = {...tx, gasPrice}`: a new object with the fields of tx
\* and the gas price of the attempt
FullTx(t, gasPrice) == [t EXCEPT !.gasPrice = gasPrice]

\* mutant: the facade hands the caller's hooks on as they are
DefaultHooksMissing(hooks) == hooks

\* `if (!hooks) hooks = {beforeSendTransaction: () => undefined,
\*                       onTransactionResponse: () => undefined}`
DefaultHooks(hooks) == IF hooks = "undefined" THEN "noop" ELSE hooks

NoSubmission ==
    [mode |-> "none", hooksArg |-> "undefined", hooks |-> "undefined",
     signer |-> "", config |-> [minGasPriceInGwei |-> 0, maxGasPriceInGwei |-> 0,
                                gasRetryIncrement |-> 0],
     numConfirmations |-> 0]

\* the facade's call of submitTransactionWithYNATM (mode "sign") or
\* submitSignedTransactionWithYNATM (mode "signed"): this.signer,
\* this.ynatmConfig, this.numConfirmations and the hooks
Delegate(mode, hooks) ==
    [mode |-> mode, hooksArg |-> hooks, hooks |-> DefaultHooks(hooks),
     signer |-> signer, config |-> ynatmConfig,
     numConfirmations |-> numConfirmations]

\* sendTxAndWaitForReceipt(gasPrice) up to its first await: fullTx is built
\* with that gas price, the beforeSendTransaction hook is called with it and
\* it is handed to signer.sendTransaction
NewAttempt(gasPrice) ==
    [gasPrice |-> gasPrice, status |-> "sending",
     events |-> <<"beforeSendTransaction", "sendTransaction">>,
     sent |-> "fullTx", fullTx |-> FullTx(tx, gasPrice), confirmations |-> 0]

\* sendTxAndWaitForReceipt(signedTx) of pre-signed mode up to its first
\* await: the beforeSendTransaction hook is called with tx and the signed
\* payload is handed to signer.provider.sendTransaction
NewSignedAttempt(gasPrice) ==
    [gasPrice |-> gasPrice, status |-> "sending",
     events |-> <<"beforeSendTransaction", "sendTransaction">>,
     sent |-> "signedTx", fullTx |-> NoTx, confirmations |-> 0]

\* The attempt of round k.  Sign-per-attempt mode sends the transaction at
\* the price of the round; pre-signed mode sends the one signed payload
\* again, its price stays the start price.
AttemptOfRound(minGwei, k) ==
    IF submission.mode = "signed"
    THEN NewSignedAttempt(GasPriceOfRound(minGwei, 0))
    ELSE NewAttempt(GasPriceOfRound(minGwei, k))

\* mutant: the confirmation wait is started before the hook is called
AckedAttemptWaitsFirst(a) ==
    [a EXCEPT !.status = "waiting",
              !.events = @ \o <<"waitForTransaction", "onTransactionResponse">>,
              !.confirmations = submission.numConfirmations]

\* sendTxAndWaitForReceipt after the send resolved with txResponse:
\* hooks.onTransactionResponse(txResponse), then
\* waitForTransaction(txResponse.hash, numConfirmations)
AckedAttempt(a) ==
    [a EXCEPT !.status = "waiting",
              !.events = @ \o <<"onTransactionResponse", "waitForTransaction">>,
              !.confirmations = submission.numConfirmations]

\* mutant: the receipt handed on is that of the latest round
ReceiptOfLatestRound(i) ==
    [attempt |-> Len(attempts), confirmations |-> numConfirmations]

\* waitForTransaction(txResponse.hash, numConfirmations) of attempt i resolved
ReceiptOf(i) == [attempt |-> i, confirmations |-> numConfirmations]

\* mutant: the call completes without handing the receipt on
ReturnReceiptDropped(r) ==
    /\ callState' = "returned"
    /\ UNCHANGED <<receipts, callError>>

\* `const receipt = await ynatm.send(..); return receipt`: the call completes
\* with the value the engine resolved with
ReturnReceipt(r) ==
    /\ callState' = "returned"
    /\ receipts' = Append(receipts, r)
    /\ UNCHANGED callError

\* the awaited engine promise rejected: the async function rejects with it
RejectCall(e) ==
    /\ callState' = "rejected"
    /\ callError' = e
    /\ UNCHANGED receipts

\* The engine when an attempt's promise resolves: the first confirmation
\* settles the submission, later ones are ignored.
EngineOnConfirmed(i) ==
    IF callState = "running"
    THEN ReturnReceipt(ReceiptOf(i))
    ELSE UNCHANGED <<callState, receipts, callError>>

\* The engine when an attempt's promise rejects: the submission is aborted
\* with that error, unless the engine's policy is to carry on with the
\* attempts still in flight.  Which policy applies is the engine's to say.
EngineOnSendError(i) ==
    IF callState = "running"
    THEN \/ RejectCall([kind |-> "sendTransaction", attempt |-> i])
         \/ UNCHANGED <<callState, receipts, callError>>
    ELSE UNCHANGED <<callState, receipts, callError>>

\* submitTransaction(tx, hooks?) -> submitTransactionWithYNATM(..): the call
\* is suspended in `await getGasPriceInGwei(signer)`
SubmitTransaction(hooks) ==
    /\ callState = "idle"
    /\ callState' = "gasPrice"
    /\ submission' = Delegate("sign", hooks)
    /\ UNCHANGED <<signer, tx, ynatmConfig, numConfirmations, networkGasPrice,
                   minGasPrice, attempts, receipts, callError>>

\* submitSignedTransaction(tx, signFunction, hooks?) ->
\* submitSignedTransactionWithYNATM(..): the call is suspended in
\* `await getGasPriceInGwei(signer)`
SubmitSignedTransaction(hooks) ==
    /\ callState = "idle"
    /\ callState' = "gasPrice"
    /\ submission' = Delegate("signed", hooks)
    /\ UNCHANGED <<signer, tx, ynatmConfig, numConfirmations, networkGasPrice,
                   minGasPrice, attempts, receipts, callError>>

\* signer.getGasPrice() answers: minGasPrice is set and ynatm.send is
\* called, which starts the first round
GetGasPriceAnswers(price) ==
    /\ callState = "gasPrice"
    /\ networkGasPrice' = price
    /\ minGasPrice' = getGasPriceInGwei(price)
    /\ attempts' = <<AttemptOfRound(minGasPrice', 0)>>
    /\ callState' = "running"
    /\ UNCHANGED <<signer, tx, submission, ynatmConfig, numConfirmations,
                   receipts, callError>>

\* signer.getGasPrice() rejects: nothing catches it
GetGasPriceFails ==
    /\ callState = "gasPrice"
    /\ RejectCall([kind |-> "getGasPrice", attempt |-> 0])
    /\ UNCHANGED <<signer, tx, submission, ynatmConfig, numConfirmations,
                   networkGasPrice, minGasPrice, attempts>>

\* The round timer (delay: config.resubmissionTimeout) elapses with no
\* attempt confirmed: the next round starts, earlier attempts stay pending.
RoundTimerElapses ==
    /\ callState = "running"
    /\ Len(attempts) < MaxRounds
    /\ attempts' = Append(attempts, AttemptOfRound(minGasPrice, Len(attempts)))
    /\ UNCHANGED <<signer, tx, submission, ynatmConfig, numConfirmations,
                   callState, networkGasPrice, minGasPrice, receipts,
                   callError>>

\* signer.sendTransaction(fullTx) of attempt i resolves: the attempt goes on
\* to provider.waitForTransaction
SendTransactionAcked(i) ==
    /\ i \in 1..Len(attempts)
    /\ attempts[i].status = "sending"
    /\ attempts' = [attempts EXCEPT ![i] = AckedAttempt(@)]
    /\ UNCHANGED <<signer, tx, submission, ynatmConfig, numConfirmations,
                   callState, networkGasPrice, minGasPrice, receipts,
                   callError>>

\* signer.sendTransaction(fullTx) of attempt i rejects: sendTxAndWaitForReceipt
\* has no catch, its promise rejects
SendTransactionFails(i) ==
    /\ i \in 1..Len(attempts)
    /\ attempts[i].status = "sending"
    /\ attempts' = [attempts EXCEPT ![i].status = "sendFailed"]
    /\ EngineOnSendError(i)
    /\ UNCHANGED <<signer, tx, submission, ynatmConfig, numConfirmations,
                   networkGasPrice, minGasPrice>>

\* provider.waitForTransaction of attempt i resolves with the Receipt
WaitForTransactionConfirms(i) ==
    /\ i \in 1..Len(attempts)
    /\ attempts[i].status = "waiting"
    /\ attempts' = [attempts EXCEPT ![i].status = "confirmed"]
    /\ EngineOnConfirmed(i)
    /\ UNCHANGED <<signer, tx, submission, ynatmConfig, numConfirmations,
                   networkGasPrice, minGasPrice>>

\* new YnatmTransactionSubmitter(signer, ynatmConfig, numConfirmations)
InitSubmit ==
    /\ signer = "wallet"
    /\ tx \in Templates
    /\ submission = NoSubmission
    /\ ynatmConfig \in ResubmissionConfigs
    /\ numConfirmations \in {1, 2}
    /\ callState = "idle"
    /\ networkGasPrice = NoPrice
    /\ minGasPrice = 0
    /\ attempts = <<>>
    /\ receipts = <<>>
    /\ callError = NoError

\* a step of the submitter leaves the MPC client alone
SubmitterOnly == UNCHANGED <<mpcVars, clientVars, hexVars, concurrentVars>>

NextSubmit ==
    \/ \E hooks \in {"undefined", "caller"} :
          SubmitTransaction(hooks) /\ SubmitterOnly
    \/ \E hooks \in {"undefined", "caller"} :
          SubmitSignedTransaction(hooks) /\ SubmitterOnly
    \/ \E price \in NetworkGasPrices : GetGasPriceAnswers(price) /\ SubmitterOnly
    \/ GetGasPriceFails /\ SubmitterOnly
    \/ RoundTimerElapses /\ SubmitterOnly
    \/ \E i \in 1..MaxRounds : SendTransactionAcked(i) /\ SubmitterOnly
    \/ \E i \in 1..MaxRounds : SendTransactionFails(i) /\ SubmitterOnly
    \/ \E i \in 1..MaxRounds : WaitForTransactionConfirms(i) /\ SubmitterOnly

----------------------------------------------------------------------------
(* mpc-client.ts: response bodies and the single-request operations         *)

\* A response body as httpRequest resolves it.  kind: "empty" (no data),
\* "malformed" (not an expression: eval throws), "null" (the text null),
\* "object" (a JSON object) or "script" (not JSON, but a JavaScript
\* expression: eval runs it and gets the value it computes); for an object
\* and for the value of a script, the fields the client reads.  A field is
\* "absent" (undefined), "null", or a string.
Body(kind, error, result, signed_tx, mpc_address) ==
    [kind |-> kind, error |-> error, result |-> result,
     signed_tx |-> signed_tx, mpc_address |-> mpc_address]

NonObjectBody(kind) == Body(kind, "absent", "absent", "absent", "absent")

ErrorValues == {"absent", "null", "", "sign failed"}
SignedTxValues == {"absent", "", "0xaa", "0xbb"}
MpcAddressValues == {"absent", "0xmpc"}

\* bodies that are not JSON but that eval accepts
ScriptBodies ==
    { Body("script", e, "object", s, a) :
        e \in {"absent", "sign failed"}, s \in {"absent", "0xaa"},
        a \in MpcAddressValues }

Bodies ==
    { NonObjectBody(k) : k \in {"empty", "malformed", "null"} }
    \cup { Body("object", e, r, "absent", "absent") :
             e \in ErrorValues, r \in {"absent", "null"} }
    \cup { Body("object", e, "object", s, a) :
             e \in ErrorValues, s \in SignedTxValues, a \in MpcAddressValues }
    \cup ScriptBodies

\* JavaScript truthiness of a field
Truthy(v) == v \notin {"absent", "null", ""}

Return(v) == [kind |-> "return", value |-> v]
Throw(e) == [kind |-> "throw", value |-> e]

\* eval('(' + resp + ')')
Eval(body) ==
    IF body.kind = "malformed" THEN Throw("SyntaxError") ELSE Return(body)

\* whether the operation hands the body to eval: `if (!resp) return ..`
\* comes first, every other body is evaluated
Evaluated(resp) == resp.kind # "empty"

\* mutant: any result is returned, with or without mpc_address
getLatestMpcAnyResult(resp) ==
    IF resp.kind = "empty" THEN Return("null")
    ELSE LET obj == Eval(resp) IN
         IF obj.kind = "throw" THEN obj
         ELSE IF obj.value.kind = "null" THEN Throw("TypeError")
         ELSE IF Truthy(obj.value.result) THEN Return("obj.result")
         ELSE Return("null")

\* getLatestMpc after `await this.httpRequest`
getLatestMpc(resp) ==
    IF resp.kind = "empty" THEN Return("null")
    ELSE LET obj == Eval(resp) IN
         IF obj.kind = "throw" THEN obj
         ELSE IF obj.value.kind = "null" THEN Throw("TypeError")
         ELSE IF Truthy(obj.value.result) /\ Truthy(obj.value.mpc_address)
              THEN Return("obj.result")
         ELSE Return("null")

\* mutant: the error field is not looked at
proposeMpcSignIgnoresError(resp) ==
    IF resp.kind = "empty" THEN Return("null")
    ELSE LET obj == Eval(resp) IN
         IF obj.kind = "throw" THEN obj
         ELSE IF obj.value.kind = "null" THEN Throw("TypeError")
         ELSE Return("obj")

\* proposeMpcSign after `await this.httpRequest`
proposeMpcSign(resp) ==
    IF resp.kind = "empty" THEN Return("null")
    ELSE LET obj == Eval(resp) IN
         IF obj.kind = "throw" THEN obj
         ELSE IF obj.value.kind = "null" THEN Throw("TypeError")
         ELSE IF Truthy(obj.value.error) THEN Return("null")
         ELSE Return("obj")

\* getMpcSign after `await this.httpRequest`
getMpcSign(resp) ==
    IF resp.kind = "empty" THEN Return("")
    ELSE LET obj == Eval(resp) IN
         IF obj.kind = "throw" THEN obj
         ELSE IF obj.value.kind = "null" THEN Throw("TypeError")
         ELSE IF Truthy(obj.value.error) THEN Return("")
         ELSE IF Truthy(obj.value.result) /\ Truthy(obj.value.signed_tx)
              THEN Return(obj.value.signed_tx)
         ELSE Return("")

\* the operation's result for a body
ResultOf(op, resp) ==
    CASE op = "getLatestMpc" -> getLatestMpc(resp)
      [] op = "proposeMpcSign" -> proposeMpcSign(resp)
      [] op = "getMpcSign" -> getMpcSign(resp)

Operations == {"getLatestMpc", "proposeMpcSign", "getMpcSign"}

\* request: the operation in progress or last ended; `evaluated` records
\* whether its body went through eval, `previous` the outcome of the call
\* before it
NoRequest == [op |-> "none", state |-> "idle", body |-> NonObjectBody("none"),
              outcome |-> Return(""), evaluated |-> FALSE,
              previous |-> Return("")]

\* getLatestMpc() / proposeMpcSign(data) / getMpcSign(id) up to
\* `await this.httpRequest(..)`
CallOperation(op) ==
    /\ request.state # "inflight"
    /\ request' = [op |-> op, state |-> "inflight",
                   body |-> NonObjectBody("none"), outcome |-> Return(""),
                   evaluated |-> FALSE, previous |-> request.outcome]
    /\ UNCHANGED url

\* response.on('end'): httpRequest resolves with the body, the operation
\* runs to its end
HttpResponds(body) ==
    /\ request.state = "inflight"
    /\ request' = [request EXCEPT !.state = "done", !.body = body,
                                  !.outcome = ResultOf(request.op, body),
                                  !.evaluated = Evaluated(body)]
    /\ UNCHANGED url

\* req.on('error'): httpRequest rejects, the await in the operation throws
HttpFails ==
    /\ request.state = "inflight"
    /\ request' = [request EXCEPT !.state = "done",
                                  !.outcome = Throw("TransportError")]
    /\ UNCHANGED url

\* new MpcClient(url)
InitClient ==
    /\ url = "http://mpc"
    /\ request = NoRequest

\* a request leaves the submitter and the polling call alone
RequestOnly == UNCHANGED <<submitVars, mpcVars, hexVars, concurrentVars>>

NextClient ==
    \/ \E op \in Operations : CallOperation(op) /\ RequestOnly
    \/ \E body \in Bodies : HttpResponds(body) /\ RequestOnly
    \/ HttpFails /\ RequestOnly

----------------------------------------------------------------------------
(* mpc-client.ts: getMpcSignWithTimeout                                     *)

NoCall == [maxTimeout |-> 0, interval |-> 0, startTime |-> 0]
NoPromise == [state |-> "none", value |-> "", settledAt |-> 0, by |-> 0]

\* what the signing service answers to the polls of one call
PollBodies ==
    { NonObjectBody("null"),
      Body("object", "absent", "object", "absent", "absent"),
      Body("object", "absent", "object", "0xaa", "absent") }

\* resolve(value) / reject(error) of the Promise: only a pending promise
\* settles
Resolve(p, value, i) ==
    IF p.state = "pending"
    THEN [state |-> "resolved", value |-> value, settledAt |-> now, by |-> i]
    ELSE p

Reject(p, error, i) ==
    IF p.state = "pending"
    THEN [state |-> "rejected", value |-> error, settledAt |-> now, by |-> i]
    ELSE p

\* clearInterval(requestInterval)
ClearInterval(t) == [t EXCEPT !.active = FALSE]

\* mutant: only the deadline ends the wait
ShouldResolveDeadlineOnly(signedTx, currentTime) ==
    currentTime - mpcCall.startTime >= mpcCall.maxTimeout

\* `signedTx || currentTime - startTime >= maxTimeout`
ShouldResolve(signedTx, currentTime) ==
    Truthy(signedTx) \/ currentTime - mpcCall.startTime >= mpcCall.maxTimeout

\* mutant: the catch block rejects but leaves the timer running
OnPollOutcomeCatchKeepsTimer(i, outcome) ==
    IF outcome.kind = "throw"
    THEN /\ promise' = Reject(promise, outcome.value, i)
         /\ UNCHANGED requestInterval
    ELSE IF Truthy(outcome.value)
            \/ now - mpcCall.startTime >= mpcCall.maxTimeout
    THEN /\ requestInterval' = ClearInterval(requestInterval)
         /\ promise' = Resolve(promise, outcome.value, i)
    ELSE UNCHANGED <<requestInterval, promise>>

\* mutant: the try block resolves but leaves the timer running
OnPollOutcomeResolveKeepsTimer(i, outcome) ==
    IF outcome.kind = "throw"
    THEN /\ requestInterval' = ClearInterval(requestInterval)
         /\ promise' = Reject(promise, outcome.value, i)
    ELSE IF Truthy(outcome.value)
            \/ now - mpcCall.startTime >= mpcCall.maxTimeout
    THEN /\ promise' = Resolve(promise, outcome.value, i)
         /\ UNCHANGED requestInterval
    ELSE UNCHANGED <<requestInterval, promise>>

\* The interval callback after `await this.getMpcSign(id)` of poll i ended
\* with `outcome`: the try block's continuation, or the catch block.
OnPollOutcome(i, outcome) ==
    IF outcome.kind = "throw"
    THEN /\ requestInterval' = ClearInterval(requestInterval)
         /\ promise' = Reject(promise, outcome.value, i)
    ELSE IF ShouldResolve(outcome.value, now)
    THEN /\ requestInterval' = ClearInterval(requestInterval)
         /\ promise' = Resolve(promise, outcome.value, i)
    ELSE UNCHANGED <<requestInterval, promise>>

\* mutant: the callback also runs at once
SetIntervalImmediate(interval) == [active |-> TRUE, nextTick |-> now]

\* setInterval(callback, interval): the first run is one interval away
SetInterval(interval) == [active |-> TRUE, nextTick |-> now + interval]

\* getMpcSignWithTimeout(id, maxTimeout, interval): startTime is read, the
\* promise is created and its executor arms the interval timer
GetMpcSignWithTimeout(maxTimeout, interval) ==
    /\ promise.state = "none"
    /\ mpcCall' = [maxTimeout |-> maxTimeout, interval |-> interval,
                   startTime |-> now]
    /\ promise' = [NoPromise EXCEPT !.state = "pending"]
    /\ requestInterval' = SetInterval(interval)
    /\ UNCHANGED <<now, polls>>

\* the interval timer runs its callback: a getMpcSign request is issued
IntervalFires ==
    /\ requestInterval.active
    /\ requestInterval.nextTick = now
    /\ polls' = Append(polls, [issuedAt |-> now, status |-> "inflight",
                               body |-> NonObjectBody("none"),
                               outcome |-> Return("")])
    /\ requestInterval' = [requestInterval EXCEPT
                             !.nextTick = now + mpcCall.interval]
    /\ UNCHANGED <<now, mpcCall, promise>>

\* the request of poll i is answered with a body
PollResponds(i, body) ==
    /\ i \in 1..Len(polls)
    /\ polls[i].status = "inflight"
    /\ polls' = [polls EXCEPT ![i].status = "done", ![i].body = body,
                              ![i].outcome = getMpcSign(body)]
    /\ OnPollOutcome(i, getMpcSign(body))
    /\ UNCHANGED <<now, mpcCall>>

\* the request of poll i fails in transport: httpRequest rejects
PollTransportError(i) ==
    /\ i \in 1..Len(polls)
    /\ polls[i].status = "inflight"
    /\ polls' = [polls EXCEPT ![i].status = "done",
                              ![i].outcome = Throw("TransportError")]
    /\ OnPollOutcome(i, Throw("TransportError"))
    /\ UNCHANGED <<now, mpcCall>>

\* one millisecond passes; a timer that is due runs first
TimePasses ==
    /\ promise.state # "none"
    /\ now < MaxTime
    /\ ~(requestInterval.active /\ requestInterval.nextTick = now)
    /\ now' = now + 1
    /\ UNCHANGED <<mpcCall, requestInterval, polls, promise>>

\* the clock reads some instant when the client is constructed
InitMpc ==
    /\ now \in {0, 1}
    /\ mpcCall = NoCall
    /\ requestInterval = [active |-> FALSE, nextTick |-> 0]
    /\ polls = <<>>
    /\ promise = NoPromise

\* a step of the polling call leaves the submitter and the request alone
PollingOnly == UNCHANGED <<submitVars, clientVars, hexVars, concurrentVars>>

NextMpc ==
    \/ \E mt \in 0..MaxMaxTimeout, iv \in 1..MaxPollInterval :
          GetMpcSignWithTimeout(mt, iv) /\ PollingOnly
    \/ IntervalFires /\ PollingOnly
    \/ \E i \in 1..MaxTime, body \in PollBodies :
          PollResponds(i, body) /\ PollingOnly
    \/ \E i \in 1..MaxTime : PollTransportError(i) /\ PollingOnly
    \/ TimePasses /\ PollingOnly

----------------------------------------------------------------------------
(* mpc-client.ts: removeHexLeadingZero.  A string is a sequence of          *)
(* characters.                                                              *)

\* the characters of the model: the zero digit, other hex digits, and x
HexChars == {"0", "1", "a", "x"}

RECURSIVE StringsUpTo(_)
\* the strings of at most n characters
StringsUpTo(n) ==
    IF n = 0 THEN {<<>>}
    ELSE LET shorter == StringsUpTo(n - 1) IN
         shorter \cup { Append(str, c) : str \in shorter, c \in HexChars }

\* hex.startsWith('0x')
StartsWith0x(hex) == Len(hex) >= 2 /\ hex[1] = "0" /\ hex[2] = "x"

\* hex.substring(2)
Substring2(hex) == SubSeq(hex, 3, Len(hex))

RECURSIVE ReplaceLeadingZeros(_)
\* toHex.replace(/^0+/, '')
ReplaceLeadingZeros(toHex) ==
    IF toHex # <<>> /\ Head(toHex) = "0"
    THEN ReplaceLeadingZeros(Tail(toHex))
    ELSE toHex

\* mutant: the one zero is kept whatever keepOneZero says
removeHexLeadingZeroAlwaysKeeps(hex, keepOneZero) ==
    LET stripped == ReplaceLeadingZeros(IF StartsWith0x(hex) THEN Substring2(hex)
                                        ELSE hex)
        toHex == IF Len(stripped) = 0 THEN <<"0">> ELSE stripped
    IN  IF StartsWith0x(hex) THEN <<"0", "x">> \o toHex ELSE toHex

\* removeHexLeadingZero(hex, keepOneZero = false)
removeHexLeadingZero(hex, keepOneZero) ==
    LET stripped == ReplaceLeadingZeros(IF StartsWith0x(hex) THEN Substring2(hex)
                                        ELSE hex)
        toHex == IF Len(stripped) = 0 /\ keepOneZero THEN <<"0">> ELSE stripped
    IN  IF StartsWith0x(hex) THEN <<"0", "x">> \o toHex ELSE toHex

\* hexCall: the arguments, how often the function has been applied, the
\* result and the result of applying it to the result
HexArgs(hex, keepOneZero) ==
    [hex |-> hex, keepOneZero |-> keepOneZero, applied |-> 0,
     result |-> <<>>, again |-> <<>>]

\* removeHexLeadingZero(hex, keepOneZero) is called
RemoveHexLeadingZero ==
    /\ hexCall.applied = 0
    /\ hexCall' = [hexCall EXCEPT
                     !.applied = 1,
                     !.result = removeHexLeadingZero(hexCall.hex,
                                                     hexCall.keepOneZero)]

\* removeHexLeadingZero is called on the result of the first call
RemoveHexLeadingZeroAgain ==
    /\ hexCall.applied = 1
    /\ hexCall' = [hexCall EXCEPT
                     !.applied = 2,
                     !.again = removeHexLeadingZero(hexCall.result,
                                                    hexCall.keepOneZero)]

InitHex ==
    hexCall \in { HexArgs(hex, keepOneZero) :
                    hex \in StringsUpTo(MaxHexLen), keepOneZero \in BOOLEAN }

\* a step of the codec leaves the rest alone
HexOnly == UNCHANGED <<submitVars, mpcVars, clientVars, concurrentVars>>

NextHex ==
    \/ RemoveHexLeadingZero /\ HexOnly
    \/ RemoveHexLeadingZeroAgain /\ HexOnly

----------------------------------------------------------------------------
(* mpc-client.ts: several getMpcSignWithTimeout calls on one client.  Each  *)
(* call has its own closure (startTime, requestInterval, resolve, reject);  *)
(* the timers live in the runtime's timer table.  The polls of a call are   *)
(* counted, not listed.                                                     *)

Calls == {1, 2}

NoConcurrentCall ==
    [state |-> "none", value |-> "", startTime |-> 0, maxTimeout |-> 0,
     interval |-> 0, requestInterval |-> 0, inflight |-> 0, issued |-> 0]

\* what a poll may end with: getMpcSign returns "" or the signed
\* transaction, or rejects with a transport error
PollOutcomes == {Return(""), Return("0xaa"), Throw("TransportError")}

\* the maxTimeout arguments of the concurrent calls: the shortest and the
\* longest
ConcurrentMaxTimeouts == {1, MaxMaxTimeout}

\* mutant: the timer id is kept where the next call overwrites it
RequestIntervalOfLatestCall(c) == Len(timers)

\* `const requestInterval = setInterval(..)`: the id the callback of call c
\* hands to clearInterval is the one its own setInterval returned
RequestIntervalOf(c) == calls[c].requestInterval

\* getMpcSignWithTimeout(id, maxTimeout, interval), call c on the client;
\* the calls are numbered in the order they are made
ConcurrentGetMpcSignWithTimeout(c, maxTimeout, interval) ==
    /\ calls[c].state = "none"
    /\ \A b \in Calls : b < c => calls[b].state # "none"
    /\ timers' = Append(timers, [timer |-> SetInterval(interval), call |-> c])
    /\ calls' = [calls EXCEPT ![c] =
                    [NoConcurrentCall EXCEPT
                       !.state = "pending", !.startTime = now,
                       !.maxTimeout = maxTimeout, !.interval = interval,
                       !.requestInterval = Len(timers) + 1]]
    /\ UNCHANGED now

\* timer t runs its callback: the call it belongs to issues a getMpcSign
ConcurrentIntervalFires(t) ==
    /\ t \in 1..Len(timers)
    /\ timers[t].timer.active
    /\ timers[t].timer.nextTick = now
    /\ LET c == timers[t].call IN
         /\ calls' = [calls EXCEPT ![c].inflight = @ + 1, ![c].issued = @ + 1]
         /\ timers' = [timers EXCEPT
                         ![t].timer.nextTick = now + calls[c].interval]
    /\ UNCHANGED now

\* The callback of call c after `await this.getMpcSign(id)` ended with
\* `outcome`: the try block's continuation, or the catch block.
ConcurrentPollEnds(c, outcome) ==
    /\ calls[c].inflight > 0
    /\ LET settles ==
             \/ outcome.kind = "throw"
             \/ Truthy(outcome.value)
             \/ now - calls[c].startTime >= calls[c].maxTimeout
           settled ==
             IF outcome.kind = "throw" THEN "rejected" ELSE "resolved"
       IN  /\ timers' = IF settles
                        THEN [timers EXCEPT ![RequestIntervalOf(c)].timer =
                                               ClearInterval(@)]
                        ELSE timers
           /\ calls' = [calls EXCEPT
                          ![c].inflight = @ - 1,
                          ![c].state = IF settles /\ @ = "pending"
                                       THEN settled ELSE @,
                          ![c].value = IF settles /\ calls[c].state = "pending"
                                       THEN outcome.value ELSE @]
    /\ UNCHANGED now

\* one millisecond passes; the timers that are due run first
ConcurrentTimePasses ==
    /\ \E c \in Calls : calls[c].state # "none"
    /\ now < MaxTime
    /\ \A t \in 1..Len(timers) :
          ~(timers[t].timer.active /\ timers[t].timer.nextTick = now)
    /\ now' = now + 1
    /\ UNCHANGED <<timers, calls>>

InitConcurrent ==
    /\ timers = <<>>
    /\ calls = [c \in Calls |-> NoConcurrentCall]

\* a step of the concurrent calls leaves the rest alone
ConcurrentOnly ==
    UNCHANGED <<submitVars, mpcCall, requestInterval, polls, promise,
                clientVars, hexVars>>

NextConcurrent ==
    \/ \E c \in Calls, maxTimeout \in ConcurrentMaxTimeouts,
          interval \in 1..MaxPollInterval :
          ConcurrentGetMpcSignWithTimeout(c, maxTimeout, interval)
          /\ ConcurrentOnly
    \/ \E t \in 1..Cardinality(Calls) :
          ConcurrentIntervalFires(t) /\ ConcurrentOnly
    \/ \E c \in Calls, outcome \in PollOutcomes :
          ConcurrentPollEnds(c, outcome) /\ ConcurrentOnly
    \/ ConcurrentTimePasses /\ ConcurrentOnly

----------------------------------------------------------------------------
(* Specifications *)

\* the submitter the other specifications leave alone
IdleSubmitter ==
    /\ ynatmConfig = [minGasPriceInGwei |-> 1, maxGasPriceInGwei |-> 1,
                      gasRetryIncrement |-> 0]
    /\ numConfirmations = 1

\* the polling clock the other specifications leave alone
IdleClock == now = 0

\* the codec call the other specifications leave alone
IdleHex == hexCall = HexArgs(<<>>, FALSE)

\* what every specification but its own starts idle
IdleOthers == InitClient /\ InitHex /\ IdleHex /\ InitConcurrent

InitOfSubmit == InitSubmit /\ InitMpc /\ IdleClock /\ IdleOthers

InitOfMpc == InitSubmit /\ IdleSubmitter /\ InitMpc /\ IdleOthers

InitOfClient == InitSubmit /\ IdleSubmitter /\ InitMpc /\ IdleClock /\ IdleOthers

InitOfHex ==
    /\ InitSubmit /\ IdleSubmitter /\ InitMpc /\ IdleClock
    /\ InitClient /\ InitHex /\ InitConcurrent

InitOfConcurrent ==
    InitSubmit /\ IdleSubmitter /\ InitMpc /\ IdleClock /\ IdleOthers

SpecSubmit ==
    InitOfSubmit /\ [][NextSubmit]_vars

SpecMpc ==
    InitOfMpc /\ [][NextMpc]_vars

SpecClient ==
    InitOfClient /\ [][NextClient]_vars

SpecHex ==
    InitOfHex /\ [][NextHex]_vars

SpecConcurrent ==
    InitOfConcurrent /\ [][NextConcurrent]_vars

----------------------------------------------------------------------------
(* Claims about submitTransaction (SpecSubmit)                              *)

ConfirmedAttempts == { i \in 1..Len(attempts) : attempts[i].status = "confirmed" }

\* C1: whatever the number of rounds and the order in which the attempts
\* confirm, the caller of submitTransaction gets exactly one Receipt: never a
\* second one, and the call completes successfully exactly when it has
\* handed over one, that of an attempt that confirmed.
C1_ExactlyOneReceipt ==
    /\ Len(receipts) <= 1
    /\ callState = "returned" <=> Len(receipts) = 1
    /\ \A k \in 1..Len(receipts) :
          /\ receipts[k].attempt \in ConfirmedAttempts
          /\ receipts[k].confirmations = numConfirmations

\* C1 witness: three rounds fired, two attempts confirmed, the later round's
\* confirmation came first and was the one returned.
C1_Witness ==
    /\ callState = "returned"
    /\ Len(attempts) = 3
    /\ Cardinality(ConfirmedAttempts) >= 2
    /\ receipts[1].attempt = 2
    /\ 1 \in ConfirmedAttempts

C4_FirstAttemptAtConfiguredMin ==
    Len(attempts) >= 1 =>
        attempts[1].gasPrice = toGwei(ynatmConfig.minGasPriceInGwei)

----------------------------------------------------------------------------
(* Claims about getMpcSignWithTimeout (SpecMpc)                             *)

DonePolls == { i \in 1..Len(polls) : polls[i].status = "done" }

\* the service has so far answered every poll without a signed_tx
NeverSigned == \A i \in DonePolls : polls[i].outcome = Return("")

\* C6 (as claimed): against a server that never returns signed_tx the call
\* has resolved with "" once maxTimeout plus one interval have passed since
\* invocation, whatever the latency of the polls.
C6_ResolvesEmptyByDeadline ==
    (/\ promise.state # "none"
     /\ NeverSigned
     /\ now > mpcCall.startTime + mpcCall.maxTimeout + mpcCall.interval)
    => (promise.state = "resolved" /\ promise.value = "")

\* poll i's answer arrives in this step
Answered(i) ==
    /\ i \in 1..Len(polls)
    /\ polls[i].status = "inflight"
    /\ polls'[i].status = "done"

\* C7: when a poll's answer carries a non-empty signed_tx and the call is
\* still waiting, the call resolves in that very step with that signature,
\* before or after maxTimeout, overlapping polls or not; and a settled call
\* keeps its value whatever the polls still in flight answer.
C7_ResolvesWithSignatureAtOnce ==
    /\ [][\A i \in 1..Len(polls) :
            (/\ Answered(i)
             /\ polls'[i].outcome.kind = "return"
             /\ polls'[i].outcome.value # ""
             /\ promise.state = "pending")
            => promise' = [state |-> "resolved",
                           value |-> polls'[i].body.signed_tx,
                           settledAt |-> now, by |-> i]]_vars
    /\ [][promise.state \in {"resolved", "rejected"} => promise' = promise]_vars

\* C7 witness: resolved with the signature before maxTimeout had passed,
\* while an earlier poll was still unanswered.
C7_Witness ==
    /\ promise.state = "resolved"
    /\ promise.value = "0xaa"
    /\ promise.settledAt - mpcCall.startTime < mpcCall.maxTimeout
    /\ \E j \in 1..Len(polls) : j < promise.by /\ polls[j].status = "inflight"

\* C8: a transport error in a poll of a call that is still waiting rejects
\* the call with that error in the same step and clears the timer; the step
\* issues no new poll, and once any poll has failed no poll is issued again.
C8_TransportErrorAborts ==
    /\ [][\A i \in 1..Len(polls) :
            (/\ Answered(i)
             /\ polls'[i].outcome = Throw("TransportError")
             /\ promise.state = "pending")
            => /\ promise' = [state |-> "rejected", value |-> "TransportError",
                              settledAt |-> now, by |-> i]
               /\ ~requestInterval'.active
               /\ Len(polls') = Len(polls)]_vars
    /\ [][(\E j \in DonePolls : polls[j].outcome.kind = "throw")
            => Len(polls') = Len(polls)]_vars

\* C8 witness: the second poll failed in transport while the first was still
\* in flight; the call is rejected and a full interval has passed since
\* without a new poll.
C8_Witness ==
    /\ promise.state = "rejected"
    /\ promise.value = "TransportError"
    /\ promise.by = 2
    /\ polls[1].status = "inflight"
    /\ now >= promise.settledAt + mpcCall.interval

\* C9 (as claimed): the first poll is issued at invocation, before any
\* interval has passed, and the deadline counts from that first poll.
C9_FirstPollAtInvocation ==
    /\ (promise.state # "none" /\ now > mpcCall.startTime) => Len(polls) >= 1
    /\ Len(polls) >= 1 => polls[1].issuedAt = mpcCall.startTime
    /\ (promise.state = "resolved" /\ promise.value = "")
         => promise.settledAt - polls[1].issuedAt >= mpcCall.maxTimeout

\* C9 (amended): the first poll is issued one interval after invocation and
\* poll i at i intervals after it, once per interval while the timer is
\* armed; the deadline counts from invocation: the call resolves with ""
\* only when maxTimeout has passed since startTime.
C9_PollsEveryIntervalFromInvocation ==
    /\ \A i \in 1..Len(polls) :
          polls[i].issuedAt = mpcCall.startTime + i * mpcCall.interval
    /\ requestInterval.active =>
          /\ requestInterval.nextTick
               = mpcCall.startTime + (Len(polls) + 1) * mpcCall.interval
          /\ now <= requestInterval.nextTick
    /\ (promise.state = "resolved" /\ promise.value = "")
         => promise.settledAt - mpcCall.startTime >= mpcCall.maxTimeout

\* C9 witness: two polls were issued and the call resolved with "" less than
\* maxTimeout after its first poll.
C9_Witness ==
    /\ Len(polls) >= 2
    /\ promise.state = "resolved"
    /\ promise.value = ""
    /\ promise.settledAt - polls[1].issuedAt < mpcCall.maxTimeout

----------------------------------------------------------------------------
(* Claims about the single-request operations (SpecClient)                  *)

\* C10 (as claimed): for a body that is empty or well-formed JSON, getMpcSign
\* returns result.signed_tx when that is non-empty and no error is set, and
\* in every other case returns "" without throwing.
C10_GetMpcSignNeverThrows ==
    (/\ request.op = "getMpcSign"
     /\ request.state = "done"
     /\ request.outcome # Throw("TransportError")
     /\ request.body.kind \notin {"malformed", "script"})
    => request.outcome =
         IF /\ request.body.kind = "object"
            /\ request.body.result = "object"
            /\ request.body.signed_tx \notin {"absent", ""}
            /\ request.body.error \in {"absent", "null", ""}
         THEN Return(request.body.signed_tx)
         ELSE Return("")


\* what each operation returns for "no result"
AbsentResult(op) == IF op = "getMpcSign" THEN Return("") ELSE Return("null")

\* the request ended with an answer of the service (not a transport error)
Answer(op) ==
    /\ request.op = op
    /\ request.state = "done"
    /\ request.outcome # Throw("TransportError")

\* C11 (as claimed): for getLatestMpc, proposeMpcSign and getMpcSign a
\* non-empty body that is not well-formed JSON gives the absent result
\* (null, null, ""), the call does not throw and the body is never evaluated
\* as code.
C11_MalformedBodyIsAbsentResult ==
    \A op \in Operations :
        (Answer(op) /\ request.body.kind \in {"malformed", "script"})
        => (request.outcome = AbsentResult(op) /\ ~request.evaluated)

\* bodies of the documented shapes: no data, or a JSON object
EmptyOrObject == request.body.kind \in {"empty", "object"}

----------------------------------------------------------------------------
(* Claims about the hooks, the facade and the attempts (SpecSubmit)         *)

\* the attempts whose send was acknowledged
AckedAttempts ==
    { i \in 1..Len(attempts) : attempts[i].status \in {"waiting", "confirmed"} }

\* C14: in both submission modes every attempt's events are, in this order,
\* the beforeSendTransaction hook, the network send, the
\* onTransactionResponse hook and the confirmation wait: one hook call before
\* each send, one onTransactionResponse after each acknowledged send and
\* none for a send that failed or is not yet acknowledged, and the wait only
\* after that hook.
C14_HookSendHookWait ==
    \A i \in 1..Len(attempts) :
        attempts[i].events =
            IF i \in AckedAttempts
            THEN <<"beforeSendTransaction", "sendTransaction",
                   "onTransactionResponse", "waitForTransaction">>
            ELSE <<"beforeSendTransaction", "sendTransaction">>

\* C14 witness: a pre-signed submission with the caller's hooks in which one
\* send failed, one attempt is waiting for its confirmations and one has
\* confirmed.
C14_Witness ==
    /\ submission.mode = "signed"
    /\ submission.hooks = "caller"
    /\ Len(attempts) = 3
    /\ attempts[1].status = "sendFailed"
    /\ attempts[2].status = "waiting"
    /\ attempts[3].status = "confirmed"

\* C15: submitTransaction and submitSignedTransaction delegate with no-op
\* hooks when the caller gives none and with the caller's hooks otherwise,
\* with the submitter's signer and config as they are, every confirmation
\* wait uses the submitter's numConfirmations, and no step of a submission
\* changes the submitter's signer, config or numConfirmations.
C15_FacadeDelegatesUnchanged ==
    /\ [](submission.mode # "none" =>
            /\ submission.hooksArg = "undefined" => submission.hooks = "noop"
            /\ submission.hooksArg = "caller" => submission.hooks = "caller"
            /\ submission.signer = signer
            /\ submission.config = ynatmConfig
            /\ \A i \in AckedAttempts :
                  attempts[i].confirmations = numConfirmations)
    /\ [][/\ signer' = signer
          /\ ynatmConfig' = ynatmConfig
          /\ numConfirmations' = numConfirmations]_vars

\* C15 witness: a pre-signed submission without hooks by a submitter that
\* asks for two confirmations, returned after two attempts waited for them.
C15_Witness ==
    /\ submission.mode = "signed"
    /\ submission.hooksArg = "undefined"
    /\ numConfirmations = 2
    /\ callState = "returned"
    /\ Cardinality(AckedAttempts) >= 2
    /\ receipts[1].confirmations = 2

\* C18: a new round leaves the earlier attempts as they are; while the call
\* is running, the confirmation of any pending attempt, of whatever round,
\* makes the call return the Receipt of that attempt; once the call has
\* returned, later confirmations change nothing of what it returned.
C18_AnyPendingAttemptWins ==
    [][/\ Len(attempts') > Len(attempts) =>
             SubSeq(attempts', 1, Len(attempts)) = attempts
       /\ \A i \in 1..Len(attempts) :
             (/\ callState = "running"
              /\ attempts[i].status = "waiting"
              /\ attempts'[i].status = "confirmed")
             => (/\ callState' = "returned"
                 /\ Len(receipts') = 1
                 /\ receipts'[1].attempt = i)
       /\ callState = "returned" =>
             (callState' = "returned" /\ receipts' = receipts)]_vars

\* C18 witness: three rounds were started, the first round's attempt
\* confirmed while the second was still pending and its Receipt was returned;
\* the third round's confirmation came afterwards.
C18_Witness ==
    /\ callState = "returned"
    /\ Len(attempts) = 3
    /\ receipts[1].attempt = 1
    /\ attempts[2].status = "waiting"
    /\ attempts[3].status = "confirmed"

\* C19: the caller's transaction is never changed; in sign-per-attempt mode
\* every attempt sends a transaction with the destination and data of the
\* caller's and the gas price of the attempt.
C19_TemplateUntouched ==
    /\ [][tx' = tx]_vars
    /\ [](tx \in Templates)
    /\ [](submission.mode = "sign" =>
            \A i \in 1..Len(attempts) :
                /\ attempts[i].sent = "fullTx"
                /\ attempts[i].fullTx.to = tx.to
                /\ attempts[i].fullTx.data = tx.data
                /\ attempts[i].fullTx.gasPrice = attempts[i].gasPrice)

\* C19 witness: three attempts of a sign-per-attempt submission went out at
\* three different gas prices, and the caller's transaction still has none.
C19_Witness ==
    /\ submission.mode = "sign"
    /\ Len(attempts) = 3
    /\ attempts[1].fullTx.gasPrice # attempts[2].fullTx.gasPrice
    /\ attempts[2].fullTx.gasPrice # attempts[3].fullTx.gasPrice
    /\ tx.gasPrice = NoPrice

----------------------------------------------------------------------------
(* Claims about removeHexLeadingZero (SpecHex)                              *)

\* the number of zero characters str begins with
LeadingZeros(str) ==
    CHOOSE k \in 0..Len(str) :
        /\ \A j \in 1..k : str[j] = "0"
        /\ k = Len(str) \/ str[k + 1] # "0"

\* what the description of removeHexLeadingZero asks for
ExpectedHex(hex, keepOneZero) ==
    LET prefixed == Len(hex) >= 2 /\ SubSeq(hex, 1, 2) = <<"0", "x">>
        rest == IF prefixed THEN SubSeq(hex, 3, Len(hex)) ELSE hex
        digits == SubSeq(rest, LeadingZeros(rest) + 1, Len(rest))
        kept == IF digits = <<>> /\ keepOneZero THEN <<"0">> ELSE digits
    IN  IF prefixed THEN <<"0", "x">> \o kept ELSE kept

\* C16: for every string and both values of keepOneZero,
\* removeHexLeadingZero gives the string without its 0x prefix and leading
\* zeros, a single 0 if nothing is left and keepOneZero is set, under the 0x
\* prefix exactly when the input had one; ("0x00", true) gives "0x0",
\* ("0x00", false) gives "0x", ("0x0a1", false) gives "0xa1"; and applying
\* it to its own result gives that result again.
C16_RemoveHexLeadingZero ==
    /\ hexCall.applied >= 1 =>
          /\ hexCall.result = ExpectedHex(hexCall.hex, hexCall.keepOneZero)
          /\ (hexCall.hex = <<"0", "x", "0", "0">> /\ hexCall.keepOneZero)
             => hexCall.result = <<"0", "x", "0">>
          /\ (hexCall.hex = <<"0", "x", "0", "0">> /\ ~hexCall.keepOneZero)
             => hexCall.result = <<"0", "x">>
          /\ (hexCall.hex = <<"0", "x", "0", "a", "1">> /\ ~hexCall.keepOneZero)
             => hexCall.result = <<"0", "x", "a", "1">>
    /\ hexCall.applied = 2 => hexCall.again = hexCall.result

\* C16 witness: "0x00" without keepOneZero gave "0x", and "0x" gave "0x"
\* again.
C16_Witness ==
    /\ hexCall.hex = <<"0", "x", "0", "0">>
    /\ ~hexCall.keepOneZero
    /\ hexCall.applied = 2
    /\ hexCall.result = <<"0", "x">>
    /\ hexCall.again = <<"0", "x">>

----------------------------------------------------------------------------
(* Claims about concurrent calls on one client (SpecConcurrent)             *)

\* C17: no step changes the client's url, and the calls on one client do not
\* touch each other: a call that is pending keeps its own timer armed and on
\* schedule (its next poll is due at startTime + (issued + 1) * interval,
\* never in the past), and a step in which one call settles or ends a poll
\* leaves the other call, its result and its timer as they were.
C17_ConcurrentCallsIndependent ==
    /\ [][url' = url]_vars
    /\ [](\A c \in Calls :
            calls[c].state = "pending" =>
                LET t == timers[calls[c].requestInterval] IN
                /\ t.call = c
                /\ t.timer.active
                /\ t.timer.nextTick =
                     calls[c].startTime + (calls[c].issued + 1) * calls[c].interval
                /\ t.timer.nextTick >= now)
    /\ [][\A c \in Calls, d \in Calls :
            (c # d /\ calls[c].state # "none"
             /\ (calls'[c].state # calls[c].state
                 \/ calls'[c].inflight < calls[c].inflight))
            => /\ calls'[d] = calls[d]
               /\ calls[d].state # "none" =>
                    timers'[calls[d].requestInterval]
                      = timers[calls[d].requestInterval]]_vars

\* C17 witness: the first call was resolved with a signature, the second
\* call, started before that, is still pending and has issued a poll since.
C17_Witness ==
    /\ calls[1].state = "resolved"
    /\ calls[1].value = "0xaa"
    /\ calls[2].state = "pending"
    /\ calls[2].startTime < now
    /\ calls[2].inflight > 0
    /\ ~timers[calls[1].requestInterval].timer.active
    /\ timers[calls[2].requestInterval].timer.active

----------------------------------------------------------------------------
(* Claims about the settling of getMpcSignWithTimeout (SpecMpc)             *)

Settled == promise.state \in {"resolved", "rejected"}

\* C20: once a getMpcSignWithTimeout call has settled, by a signature, the
\* deadline or an error, its timer is cleared, it issues no further getMpcSign
\* request, and its outcome stays what it is whatever the polls still in
\* flight are answered with.
C20_SettlesOnceTimerCleared ==
    /\ [](Settled => ~requestInterval.active)
    /\ [][Settled => (promise' = promise /\ Len(polls') = Len(polls))]_vars

\* C20 witness: the call resolved with "" at the deadline while a later poll
\* was in flight; that poll was then answered with a signature and the
\* outcome is still "".
C20_Witness ==
    /\ promise.state = "resolved"
    /\ promise.value = ""
    /\ \E j \in 1..Len(polls) :
          /\ j > promise.by
          /\ polls[j].status = "done"
          /\ polls[j].outcome = Return("0xaa")

====
